---- MODULE Spec2Model ----
(***************************************************************************)
(* Model of the CBRE report archiver: the paginated crawl with its        *)
(* keep rule and early stop (scrapers/web_scraper.py), the download and   *)
(* organize step (tools/download_tools.py), the three JSON logs           *)
(* (utils/file_utils.py), the log-maintenance commands                    *)
(* (scripts/log_manager.py) and the run orchestrator (tools/cbre_tool.py).*)
(*                                                                         *)
(* Text is modelled as a sequence of symbols.  A report title is a        *)
(* sequence of whitespace-separated tokens; a market name, year, period,  *)
(* filename or path is a sequence of characters in which a word without   *)
(* special characters is one symbol.  Python dicts whose order matters    *)
(* (found_reports, new_reports_to_process) are sequences of key/value     *)
(* records with unique keys; the JSON logs are functions url -> value.    *)
(***************************************************************************)
EXTENDS Integers, Sequences, FiniteSets, TLC

\* ------------------------------------------------------------------ bounds
MaxMarketLen == 2
MaxRecords == 2
MaxLinks == 3

\* ------------------------------------------------------- generic helpers
Min(S) == CHOOSE x \in S : \A y \in S : x <= y

Max(S) == CHOOSE x \in S : \A y \in S : x >= y

Range(s) == {s[i] : i \in 1..Len(s)}

SeqsUpTo(S, n) == UNION {[1..k -> S] : k \in 0..n}

EmptyMap == [u \in {} |-> <<>>]

\* d[k] = v for a JSON object held as a function
MapSet(d, k, v) == [x \in (DOMAIN d) \cup {k} |-> IF x = k THEN v ELSE d[x]]

\* d.get(k): the entry is read and left in place
MapGetOnly(d, k) == d

\* d.pop(k)
MapPop(d, k) == [x \in (DOMAIN d) \ {k} |-> d[x]]

\* insertion-ordered dict: sequence of [k, v] with unique k
DictKeys(d) == {d[i].k : i \in 1..Len(d)}

DictValues(d) == [i \in 1..Len(d) |-> d[i].v]

DictGet(d, key) == d[CHOOSE i \in 1..Len(d) : d[i].k = key].v

DictSet(d, key, val) ==
    IF key \in DictKeys(d)
    THEN [i \in 1..Len(d) |-> IF d[i].k = key THEN [k |-> key, v |-> val] ELSE d[i]]
    ELSE Append(d, [k |-> key, v |-> val])

NoDuplicateKeys(d) == \A i, j \in 1..Len(d) : d[i].k = d[j].k => i = j

\* ------------------------------------------------- title text and regexes
\* str.lower() on one token of a title
Lower(tok) ==
    CASE tok = "Q1" -> "q1" [] tok = "Q2" -> "q2" [] tok = "Q3" -> "q3"
      [] tok = "Q4" -> "q4" [] tok = "H1" -> "h1" [] tok = "H2" -> "h2"
      [] tok = "YE" -> "ye" [] tok = "Year-End" -> "year-end"
      [] tok = "Full-Year" -> "full-year" [] tok = "Figures" -> "figures"
      [] tok = "FIGURES" -> "figures"
      [] OTHER -> tok

link_text_lower(text) == [i \in 1..Len(text) |-> Lower(text[i])]

\* str.upper() on a matched period token
Upper(tok) ==
    CASE tok = "q1" -> "Q1" [] tok = "q2" -> "Q2" [] tok = "q3" -> "Q3"
      [] tok = "q4" -> "Q4" [] tok = "h1" -> "H1" [] tok = "h2" -> "H2"
      [] tok = "ye" -> "YE" [] tok = "year-end" -> "YEAR-END"
      [] tok = "full-year" -> "FULL-YEAR"
      [] OTHER -> tok

\* str.replace('-', '') on an upper-cased period token
RemoveDash(tok) ==
    CASE tok = "YEAR-END" -> "YEAREND" [] tok = "FULL-YEAR" -> "FULLYEAR"
      [] OTHER -> tok

\* \d{4} and int() of it
YearTokens == {"2023", "2024", "2025"}

YearInt(tok) ==
    CASE tok = "2023" -> 2023 [] tok = "2024" -> 2024 [] tok = "2025" -> 2025
      [] OTHER -> 0

\* (q([1-4])|h([1-2]))
StrictPeriodTokens == {"q1", "q2", "q3", "q4", "h1", "h2"}

\* (q[1-4]|h[1-2]|year-end|ye|full-year)
LoosePeriodTokens == StrictPeriodTokens \cup {"year-end", "ye", "full-year"}

\* re.search(<period>\s*(\d{4}), text): the leftmost period token directly
\* followed by a four-digit token
ReSearch(periods, lower) ==
    LET hits == {i \in 1..(Len(lower) - 1) :
                    lower[i] \in periods /\ lower[i + 1] \in YearTokens}
    IN  IF hits = {}
        THEN [matched |-> FALSE, period |-> "", year |-> 0]
        ELSE [matched |-> TRUE, period |-> lower[Min(hits)],
              year |-> YearInt(lower[Min(hits) + 1])]

period_to_value_keys ==
    {"Q1", "Q2", "H1", "Q3", "Q4", "H2", "YEAR-END", "YE", "FULL-YEAR",
     "YEAREND", "year-end", "yearend"}

\* period_to_value.get(p, 0)
period_to_value(p) ==
    CASE p = "Q1" -> 1 [] p = "Q2" -> 2 [] p = "H1" -> 2 [] p = "Q3" -> 3
      [] p = "Q4" -> 4 [] p = "H2" -> 4 [] p = "YEAR-END" -> 4 [] p = "YE" -> 4
      [] p = "FULL-YEAR" -> 4 [] p = "YEAREND" -> 4 [] p = "year-end" -> 4
      [] p = "yearend" -> 4
      [] OTHER -> 0

\* None / 0 for the target year, None / "" for the target period
NoYear == 0

NoPeriod == ""

\* target_value = target_year * 4 + period_to_value.get(target_period, 0)
target_value(target_year, target_period) ==
    IF target_year # NoYear
    THEN (target_year * 4) + period_to_value(target_period)
    ELSE 0

\* all(kw.lower() in link_text_lower for kw in config["search_terms"])
MatchesSearchTerms(text, search_terms) ==
    \A n \in 1..Len(search_terms) :
        \E i \in 1..Len(text) : Lower(text[i]) = Lower(search_terms[n])

\* the keep decision with the half-year rule crossed over
keep_report_crossed(text, target_year, target_period) ==
    LET match == ReSearch(StrictPeriodTokens, link_text_lower(text))
        report_year == IF match.matched THEN match.year ELSE 0
        report_period == IF match.matched THEN Upper(match.period) ELSE ""
    IN  IF target_year = NoYear THEN TRUE
        ELSE IF report_year # 0 /\ report_year = target_year
        THEN IF target_period = NoPeriod THEN TRUE
             ELSE IF report_period # ""
             THEN \/ report_period = target_period
                  \/ target_period \in {"Q1", "Q2"} /\ report_period = "H2"
                  \/ target_period \in {"Q3", "Q4"} /\ report_period = "H1"
             ELSE FALSE
        ELSE FALSE

\* the keep decision for one link text
keep_report(text, target_year, target_period) ==
    LET match == ReSearch(StrictPeriodTokens, link_text_lower(text))
        report_year == IF match.matched THEN match.year ELSE 0
        report_period == IF match.matched THEN Upper(match.period) ELSE ""
    IN  IF target_year = NoYear THEN TRUE
        ELSE IF report_year # 0 /\ report_year = target_year
        THEN IF target_period = NoPeriod THEN TRUE
             ELSE IF report_period # ""
             THEN \/ report_period = target_period
                  \/ target_period \in {"Q1", "Q2"} /\ report_period = "H1"
                  \/ target_period \in {"Q3", "Q4"} /\ report_period = "H2"
             ELSE FALSE
        ELSE FALSE

\* found_value of the looser pattern, for a text it matches
found_value(text) ==
    LET match == ReSearch(LoosePeriodTokens, link_text_lower(text))
    IN  (match.year * 4) + period_to_value(RemoveDash(Upper(match.period)))

\* the early-stop decision with a non-strict comparison
should_stop_inclusive(text, enable_early_stopping, target_year, target_period) ==
    LET match == ReSearch(LoosePeriodTokens, link_text_lower(text))
    IN  /\ enable_early_stopping
        /\ target_year # NoYear
        /\ match.matched
        /\ IF target_period # NoPeriod /\ target_value(target_year, target_period) # 0
           THEN found_value(text) <= target_value(target_year, target_period)
           ELSE match.year <= target_year

\* the early-stop decision for one link text
should_stop(text, enable_early_stopping, target_year, target_period) ==
    LET match == ReSearch(LoosePeriodTokens, link_text_lower(text))
    IN  /\ enable_early_stopping
        /\ target_year # NoYear
        /\ match.matched
        /\ IF target_period # NoPeriod /\ target_value(target_year, target_period) # 0
           THEN found_value(text) < target_value(target_year, target_period)
           ELSE match.year < target_year

\* ------------------------------------------------ download / organize step
Whitespace == {" "}

\* str.strip()
Strip(s) ==
    LET keep == {i \in 1..Len(s) : s[i] \notin Whitespace}
    IN  IF keep = {} THEN <<>> ELSE SubSeq(s, Min(keep), Max(keep))

invalid_chars == {"/", "\\", ":", "*", "?", "\"", "<", ">", "|"}

\* the replacement loop with the path separators left out of the list
sanitized_market_name_keeping_separators(raw_market_name) ==
    [i \in 1..Len(raw_market_name) |->
        IF raw_market_name[i] \in invalid_chars \ {"/", ":"} THEN " "
        ELSE raw_market_name[i]]

\* for char in invalid_chars: name = name.replace(char, ' ')
sanitized_market_name(raw_market_name) ==
    [i \in 1..Len(raw_market_name) |->
        IF raw_market_name[i] \in invalid_chars THEN " " ELSE raw_market_name[i]]

\* os.path.join(a, b) on POSIX
PathJoin(a, b) ==
    IF Len(b) > 0 /\ b[1] = "/" THEN b
    ELSE IF Len(a) = 0 \/ a[Len(a)] = "/" THEN a \o b
    ELSE a \o <<"/">> \o b

\* os.path.basename of a staged file is its name
EndsWithPdf(name) == Len(name) > 0 /\ name[Len(name)] = ".pdf"

BASE_REPORT_PATH == <<"/", "project", "/", "CBRE_Reports">>

failed_folder(base_save_path) ==
    PathJoin(PathJoin(base_save_path, <<"failed_downloads">>), <<"Parsing_Error">>)

\* f"{market} {year} {period}.pdf"
filename(market, year, period) ==
    market \o <<" ">> \o year \o <<" ">> \o period \o <<".pdf">>

\* os.path.join(base_save_path, str(year), f"{year} {period}")
folder_path(base_save_path, year, period) ==
    PathJoin(PathJoin(base_save_path, year), year \o <<" ">> \o period)

final_save_path(base_save_path, market, year, period) ==
    PathJoin(folder_path(base_save_path, year, period), filename(market, year, period))

TimedOutMessage(report_url) == <<"Download timed out for", report_url>>

ExceptionMessage(report_url) ==
    <<"An unexpected exception occurred in CbrePDFDownloaderTool._run.", report_url>>

PartialMessage(failed_filename) ==
    <<"File">> \o failed_filename \o <<"downloaded but couldn't be organized.">>

\* not all([raw_market_name, year, period]) tested on the market and period only
parsing_incomplete_ignoring_year(raw_market_name, year, period) ==
    raw_market_name = <<>> \/ period = <<>>

\* not all([raw_market_name, year, period])
parsing_incomplete(raw_market_name, year, period) ==
    raw_market_name = <<>> \/ year = <<>> \/ period = <<>>

\* CbrePDFDownloaderTool._run on the staging directory stg, the downloads
\* still in flight fl and the output tree tree.  The environment decides:
\*   control  the download control is located within the wait bound
\*   own      the file the click starts
\*   gone     in-flight files that landed before staging was cleared
\*   arrived  files that land in staging during the polling loop
\*   picked   the first .pdf the listing returns
\*   moving   makedirs and shutil.move do not raise
\* step tells where the call ended.
Downloader(report_url, parsed_info, base_save_path, stg, fl, tree, control, own, gone, arrived, picked, moving) ==
    LET pending == (fl \ gone) \cup {own}
        raw_market_name == Strip(parsed_info.market_name)
        year == Strip(parsed_info.year)
        period == Strip(parsed_info.period)
        market == sanitized_market_name(raw_market_name)
        partial_path == PathJoin(failed_folder(base_save_path), picked.name)
        save_path == final_save_path(base_save_path, market, year, period)
    IN  IF ~control
        THEN [status |-> "error", data |-> ExceptionMessage(report_url),
              staging |-> stg, in_flight |-> fl, tree |-> tree, path |-> <<>>,
              picked |-> {}, step |-> "control_timeout"]
        ELSE IF {f \in arrived : EndsWithPdf(f.name)} = {}
        THEN [status |-> "error", data |-> TimedOutMessage(report_url),
              staging |-> arrived, in_flight |-> pending \ arrived, tree |-> tree,
              path |-> <<>>, picked |-> {}, step |-> "download_timeout"]
        ELSE IF ~moving
        THEN [status |-> "error", data |-> ExceptionMessage(report_url),
              staging |-> arrived, in_flight |-> pending \ arrived, tree |-> tree,
              path |-> <<>>, picked |-> {picked}, step |-> "organize_exception"]
        ELSE IF parsing_incomplete(raw_market_name, year, period)
        THEN [status |-> "partial_success", data |-> PartialMessage(picked.name),
              staging |-> arrived \ {picked}, in_flight |-> pending \ arrived,
              tree |-> MapSet(tree, partial_path, picked.src),
              path |-> partial_path, picked |-> {picked}, step |-> "organized"]
        ELSE [status |-> "success", data |-> filename(market, year, period),
              staging |-> arrived \ {picked}, in_flight |-> pending \ arrived,
              tree |-> MapSet(tree, save_path, picked.src),
              path |-> save_path, picked |-> {picked}, step |-> "organized"]

\* ------------------------------------------------------------- log files
\* A log file is missing, holds text that is not JSON, or holds an object.
MissingFile == [st |-> "missing", data |-> EmptyMap]

CorruptFile == [st |-> "corrupt", data |-> EmptyMap]

JsonFile(d) == [st |-> "ok", data |-> d]

\* the keys actually stored in a log file
FileKeys(file) == IF file.st = "ok" THEN DOMAIN file.data ELSE {}

\* utils.file_utils.load_download_log: json.load is not guarded
load_download_log(file) ==
    IF file.st = "missing" THEN [raised |-> FALSE, urls |-> {}]
    ELSE IF file.st = "corrupt" THEN [raised |-> TRUE, urls |-> {}]
    ELSE [raised |-> FALSE, urls |-> DOMAIN file.data]

\* update_download_log without the reading of the existing file
update_download_log_fresh(file, url, final_filename) ==
    JsonFile(MapSet(EmptyMap, url, final_filename))

\* utils.file_utils.update_download_log
update_download_log(file, url, final_filename) ==
    JsonFile(MapSet(IF file.st = "ok" THEN file.data ELSE EmptyMap, url, final_filename))

\* load_failed_log that reads every file as empty
load_failed_log_empty(file) == EmptyMap

\* utils.file_utils.load_failed_log
load_failed_log(file) == IF file.st = "ok" THEN file.data ELSE EmptyMap

\* update_failed_log that leaves the file as it is
update_failed_log_skipped(file, url, reason) == file

\* utils.file_utils.update_failed_log
update_failed_log(file, url, reason) ==
    JsonFile(MapSet(load_failed_log(file), url, reason))

\* utils.file_utils.load_irrelevant_log
load_irrelevant_log(file) == IF file.st = "ok" THEN DOMAIN file.data ELSE {}

\* scripts.log_manager._load_log
load_log(file) == IF file.st = "ok" THEN file.data ELSE EmptyMap

\* the default reason of utils.file_utils.update_irrelevant_log
DefaultIrrelevantReason == <<"Marked as irrelevant by user">>

IrrelevantMarker == <<"Marked as irrelevant by user.">>

PartialReason == <<"Partial Success - Parsing/Organizing Failed">>

NotFoundMessage == "Error: URL not found in the failed log."

PromotedMessage == "Promotion complete!"

MarkedMessage == "Marked as irrelevant!"

NoReportsMessage == "No reports found on the website matching the criteria."

NothingToDoMessage == "Process complete. No new reports to download."

SetupErrorMessage == "Error: Could not set up the CBRE insights page."

SummaryMessage == "summary"

\* the diagnostic string built by the catch-all of _run
FatalMessage == "FATAL: An unexpected error occurred in CbreReportArchiverTool._run (cbre_tool.py)."

\* ------------------------------------------------------------------ state
VARIABLES
    success_log,        \* <root>/download_log.json
    failed_log,         \* <root>/failed_log.json
    irrelevant_log,     \* <root>/irrelevant_log.json
    out_tree,           \* files under the output root: path -> url of origin
    staging,            \* files in temp_downloads
    in_flight,          \* downloads the browser has started and not finished
    site,               \* result pages of the website, in display order
    pc,                 \* position of the running operation
    args,               \* year and period given to _run
    config,             \* scrape_config
    urls_to_ignore,
    found_reports,
    page_count,
    link_idx,           \* index of the next link of the current page
    should_stop_scraping,
    new_reports_to_process,
    record_idx,         \* index of the next record of parsed_reports_data
    newly_downloaded_files,
    partially_downloaded_files,
    failed_downloads,
    result,             \* what the run returned; empty while it runs
    trace,              \* observations of the current run
    last,               \* the last finished operation
    parsed_info,        \* the Parsed Report of a direct call of the downloader
    command,            \* a promote or mark-irrelevant call taken step by step
    upsert              \* an update_failed_log call taken step by step

logVars == <<success_log, failed_log, irrelevant_log>>

fileVars == <<out_tree, staging, in_flight>>

crawlVars == <<found_reports, page_count, link_idx, should_stop_scraping>>

processVars == <<new_reports_to_process, record_idx,
                 newly_downloaded_files, partially_downloaded_files, failed_downloads>>

writerVars == <<command, upsert>>

vars == <<logVars, fileVars, site, pc, args, config, urls_to_ignore, crawlVars,
          processVars, result, trace, last, parsed_info, writerVars>>

\* ------------------------------------------------------------ input sets
Link(href, text) == [href |-> href, text |-> text]

Logs == [success_log |-> success_log, failed_log |-> failed_log,
         irrelevant_log |-> irrelevant_log]

NoLogs == [success_log |-> MissingFile, failed_log |-> MissingFile,
           irrelevant_log |-> MissingFile]

\* what a run returns: a fixed message or the summary built from the buckets
Result(message, downloaded, partial, failed) ==
    [message |-> message, downloaded |-> downloaded, partial |-> partial,
     failed |-> failed]

NoResult == Result("", 0, 0, 0)

\* one call of CbrePDFDownloaderTool._run and what it returned
Attempt(report_url, info, out) ==
    [url |-> report_url, info |-> info, status |-> out.status,
     data |-> out.data, path |-> out.path, picked |-> out.picked, step |-> out.step]

NoInfo == [original_title |-> <<>>, market_name |-> <<>>, year |-> <<>>, period |-> <<>>]

NoAttempt ==
    [url |-> "", info |-> NoInfo, status |-> "", data |-> <<>>, path |-> <<>>,
     picked |-> {}, step |-> ""]

NoTrace ==
    [start_logs |-> NoLogs, start_tree |-> EmptyMap, examined |-> <<>>, clicks |-> 0,
     timed_out |-> FALSE, crawled |-> FALSE, parser_calls |-> <<>>,
     downloader_calls |-> <<>>, attempt |-> NoAttempt, repeat |-> FALSE,
     session |-> "none", closes |-> 0]

\* Scraper.__init__: webdriver.Chrome(...) starts the browser session
open_session(tr) == [tr EXCEPT !.session = "open"]

\* Scraper.close without the call of driver.quit()
close_without_quit(tr) == tr

\* Scraper.close: driver.quit()
close(tr) == [tr EXCEPT !.session = "closed", !.closes = @ + 1]

NoArgs == [year |-> NoYear, period |-> NoPeriod]

\* a finished promote or mark-irrelevant command
Command(op, url, new_filename, message, before) ==
    [op |-> op, url |-> url, filename |-> new_filename, message |-> message,
     before |-> before, args |-> NoArgs, clean |-> FALSE]

NoLast == Command("none", "", <<>>, "", NoLogs)

\* a log command before it has started: op is the function called, failed_log
\* and dest_log are its two dicts in memory, before the files it loaded from;
\* overlap tells that it started while an update_failed_log call was between
\* its read and its rewrite
NoCommand ==
    [pc |-> "idle", op |-> "", url |-> "", filename |-> <<>>, failed_log |-> EmptyMap,
     dest_log |-> EmptyMap, before |-> NoLogs, overlap |-> FALSE]

\* an update_failed_log call before it has started: data is its dict in memory
NoUpsert ==
    [pc |-> "idle", url |-> "", reason |-> <<>>, data |-> EmptyMap, before |-> NoLogs,
     overlap |-> FALSE]

\* scrape_config of CbreReportArchiverTool._run
scrape_config(year, period) ==
    [search_terms |-> <<>>, enable_early_stopping |-> (year # NoYear),
     target_year |-> year, target_period |-> period]

\* ------------------------------------------- Scraper.extract_links_from_pages
\* the wait for the results container started again after it timed out
ScrapePage_retrying ==
    /\ pc = "page"
    /\ \E found \in BOOLEAN :
         IF found
         THEN /\ pc' = "links"
              /\ link_idx' = 1
              /\ trace' = trace
         ELSE /\ pc' = "page"
              /\ link_idx' = link_idx
              /\ trace' = [trace EXCEPT !.timed_out = TRUE]
    /\ UNCHANGED <<logVars, fileVars, site, args, config, urls_to_ignore,
                   found_reports, page_count, should_stop_scraping,
                   processVars, result, last, parsed_info, writerVars>>

\* WebDriverWait(...).until(presence of the results container)
ScrapePage ==
    /\ pc = "page"
    /\ \E found \in BOOLEAN :
         IF found
         THEN /\ pc' = "links"
              /\ link_idx' = 1
              /\ trace' = trace
         ELSE /\ pc' = "crawled"
              /\ link_idx' = link_idx
              /\ trace' = [trace EXCEPT !.timed_out = TRUE, !.crawled = TRUE]
    /\ UNCHANGED <<logVars, fileVars, site, args, config, urls_to_ignore,
                   found_reports, page_count, should_stop_scraping,
                   processVars, result, last, parsed_info, writerVars>>

\* body of "for link in links"
ExamineLink ==
    /\ pc = "links"
    /\ link_idx <= Len(site[page_count])
    /\ LET link == site[page_count][link_idx]
           eligible == /\ MatchesSearchTerms(link.text, config.search_terms)
                       /\ link.href # ""
                       /\ link.href \notin DictKeys(found_reports)
           keep == eligible /\ keep_report(link.text, config.target_year, config.target_period)
           stop == eligible /\ should_stop(link.text, config.enable_early_stopping,
                                           config.target_year, config.target_period)
       IN  /\ found_reports' = IF keep THEN DictSet(found_reports, link.href, link.text)
                               ELSE found_reports
           /\ should_stop_scraping' = stop
           /\ pc' = IF stop THEN "crawled" ELSE "links"
           /\ link_idx' = IF stop THEN link_idx ELSE link_idx + 1
           /\ trace' = [trace EXCEPT
                          !.examined = Append(@, [page |-> page_count, idx |-> link_idx,
                                                  eligible |-> eligible, kept |-> keep]),
                          !.crawled = stop]
    /\ UNCHANGED <<logVars, fileVars, site, args, config, urls_to_ignore, page_count,
                   processVars, result, last, parsed_info, writerVars>>

\* find the next-page control; click it or leave the loop
NextPage ==
    /\ pc = "links"
    /\ link_idx > Len(site[page_count])
    /\ IF page_count < Len(site)
       THEN /\ page_count' = page_count + 1
            /\ pc' = "page"
            /\ trace' = [trace EXCEPT !.clicks = @ + 1]
       ELSE /\ page_count' = page_count
            /\ pc' = "crawled"
            /\ trace' = [trace EXCEPT !.crawled = TRUE]
    /\ UNCHANGED <<logVars, fileVars, site, args, config, urls_to_ignore,
                   found_reports, link_idx, should_stop_scraping,
                   processVars, result, last, parsed_info, writerVars>>

\* ------------------------------------------------ the crawl on its own
Url(i) == CASE i = 1 -> "u1" [] i = 2 -> "u2" [] i = 3 -> "u3" [] i = 4 -> "u4"
            [] OTHER -> "u5"

CrawlTitles ==
    {<<"Q1", "2024">>, <<"H1", "2024">>,
     <<"Figures", "Q1", "2023">>, <<"Figures">>,
     <<"YE", "2023", "q1", "2024">>, <<"Full-Year", "2024">>}

\* how the links of a listing carry their href: all different, all the same,
\* or the first one without href
HrefPatterns == {"distinct", "same", "first_empty"}

Href(pattern, i) ==
    CASE pattern = "same" -> "u1"
      [] pattern = "first_empty" /\ i = 1 -> ""
      [] OTHER -> Url(i)

\* the listing cut into result pages of per_page links (at least one page)
Paginate(links, per_page) ==
    LET n == IF Len(links) = 0 THEN 1 ELSE ((Len(links) + per_page) - 1) \div per_page
    IN  [p \in 1..n |->
            SubSeq(links, ((p - 1) * per_page) + 1,
                   IF p * per_page < Len(links) THEN p * per_page ELSE Len(links))]

Listing(titles, pattern) ==
    [i \in 1..Len(titles) |-> Link(Href(pattern, i), titles[i])]

ExampleTitles == <<(<<"Q3", "2024">>), (<<"Q2", "2024">>), (<<"Q1", "2024">>), (<<"Q4", "2023">>)>>

ExampleSite == Paginate(Listing(ExampleTitles, "distinct"), 4)

ExamplePagedSite == Paginate(Listing(ExampleTitles, "distinct"), 2)

CrawlSites ==
    {Paginate(Listing(titles, pattern), per_page) :
        titles \in SeqsUpTo(CrawlTitles, MaxLinks),
        pattern \in HrefPatterns,
        per_page \in {1, MaxLinks}}
    \cup {ExampleSite, ExamplePagedSite}

CrawlConfigs ==
    {c \in [search_terms : {<<>>, <<"FIGURES">>}, enable_early_stopping : BOOLEAN,
            target_year : {NoYear, 2024}, target_period : {NoPeriod, "Q1", "Q2", "Q4"}] :
        c.target_year = NoYear => c.target_period \in {NoPeriod, "Q1"}}

InitCrawl ==
    /\ success_log = MissingFile
    /\ failed_log = MissingFile
    /\ irrelevant_log = MissingFile
    /\ out_tree = EmptyMap
    /\ staging = {}
    /\ in_flight = {}
    /\ site \in CrawlSites
    /\ pc = "page"
    /\ config \in CrawlConfigs
    /\ args = [year |-> config.target_year, period |-> config.target_period]
    /\ urls_to_ignore = {}
    /\ found_reports = <<>>
    /\ page_count = 1
    /\ link_idx = 1
    /\ should_stop_scraping = FALSE
    /\ new_reports_to_process = <<>>
    /\ record_idx = 1
    /\ newly_downloaded_files = <<>>
    /\ partially_downloaded_files = <<>>
    /\ failed_downloads = <<>>
    /\ result = NoResult
    /\ trace = NoTrace
    /\ last = NoLast
    /\ parsed_info = NoInfo
    /\ command = NoCommand
    /\ upsert = NoUpsert

NextCrawl == ScrapePage \/ ExamineLink \/ NextPage

SpecCrawl == InitCrawl /\ [][NextCrawl]_vars

\* the loop of extract_links_from_pages is sequential code: as long as an
\* iteration step is possible the interpreter takes one
\* Termination is checked on listings of a link of the target period and an
\* older one, on one page or one link per page.
LiveTitles == {<<"Q1", "2024">>, <<"Figures", "Q1", "2023">>}

LiveSites ==
    {Paginate(Listing(titles, pattern), per_page) :
        titles \in SeqsUpTo(LiveTitles, MaxLinks),
        pattern \in {"distinct", "same"},
        per_page \in {1, MaxLinks}}

InitCrawlLive == InitCrawl /\ site \in LiveSites

SpecCrawlLive == InitCrawlLive /\ [][NextCrawl]_vars /\ WF_vars(NextCrawl)

\* ----------------------------------------------------- claims on the crawl
ExaminedLink(n) == site[trace.examined[n].page][trace.examined[n].idx]

\* the year and period the stricter pattern reads in a title
ParsedDate(text) == ReSearch(StrictPeriodTokens, link_text_lower(text))

KeepRule(text) ==
    \/ config.target_year = NoYear
    \/ /\ ParsedDate(text).matched
       /\ ParsedDate(text).year = config.target_year
       /\ \/ config.target_period = NoPeriod
          \/ Upper(ParsedDate(text).period) = config.target_period
          \/ config.target_period \in {"Q1", "Q2"} /\ Upper(ParsedDate(text).period) = "H1"
          \/ config.target_period \in {"Q3", "Q4"} /\ Upper(ParsedDate(text).period) = "H2"

KeptTexts == {ExaminedLink(n).text : n \in {m \in 1..Len(trace.examined) : trace.examined[m].kept}}

SkippedTexts ==
    {ExaminedLink(n).text :
        n \in {m \in 1..Len(trace.examined) :
                  trace.examined[m].eligible /\ ~trace.examined[m].kept}}

\* C6: a link that passes the keyword filter and whose url is not yet in the
\* result is kept if and only if no target year is set, or the year parsed
\* from its title equals the target year and the target period is unset,
\* equal to the parsed period, Q1/Q2 against a parsed H1 or Q3/Q4 against a
\* parsed H2; the kept links are exactly the entries of the result.  With
\* target (2024, Q1), Q1 2024 and H1 2024 are kept, Q3 2024 and Q1 2023 are
\* not; a title without date is kept exactly when no target year is set.
C6_KeepRule ==
    /\ \A n \in 1..Len(trace.examined) :
          trace.examined[n].eligible =>
             /\ trace.examined[n].kept <=> KeepRule(ExaminedLink(n).text)
             /\ trace.examined[n].kept =>
                   /\ ExaminedLink(n).href \in DictKeys(found_reports)
                   /\ DictGet(found_reports, ExaminedLink(n).href) = ExaminedLink(n).text
    /\ Len(found_reports) = Cardinality({n \in 1..Len(trace.examined) : trace.examined[n].kept})
    /\ (config.target_year = 2024 /\ config.target_period = "Q1") =>
          /\ KeptTexts \subseteq {<<"Q1", "2024">>, <<"H1", "2024">>, <<"YE", "2023", "q1", "2024">>}
          /\ SkippedTexts \cap {<<"Q1", "2024">>, <<"H1", "2024">>} = {}
    /\ <<"Figures">> \in KeptTexts => config.target_year = NoYear
    /\ <<"Figures">> \in SkippedTexts => config.target_year # NoYear

C6_Witness ==
    /\ config.target_year = 2024
    /\ config.target_period = "Q1"
    /\ <<"H1", "2024">> \in KeptTexts
    /\ <<"Figures", "Q1", "2023">> \in SkippedTexts
    /\ pc = "crawled"

\* the looser pattern finds a date in the title and values it below the target
OlderThanTarget(text) ==
    /\ ReSearch(LoosePeriodTokens, link_text_lower(text)).matched
    /\ found_value(text) < (config.target_year * 4) + period_to_value(config.target_period)

MainTitle == <<"Figures", "Q1", "2024">>

OlderTitle == <<"Figures", "Q1", "2023">>

\* a title the interpreter returns that is none of the titles it was given
AlteredTitle == <<"Q1", "2024">>

MainSites ==
    {<< <<Link("u1", MainTitle), Link("u2", MainTitle)>> >>,
     << <<Link("u1", MainTitle)>>, <<Link("u2", OlderTitle)>> >>}

MainArgs == {NoArgs, [year |-> 2024, period |-> "Q1"]}

MainMarkets == {<<"Boston">>}

MainYears == {<<>>, <<"2024">>}

\* a title of the half year that the keep rule accepts for Q1 and Q2
HalfYearTitle == <<"Figures", "H1", "2024">>

MainPeriods == {<<"Q1">>, <<"H1">>}

\* the period as it appears in a title ("Extract it exactly as it appears")
TitlePeriod(title) == IF "H1" \in Range(title) THEN <<"H1">> ELSE <<"Q1">>

DownloadNames == {<<"report", ".pdf">>}

\* the records CbreTitleParserTool._run can return for a batch of titles;
\* it returns any list of them, [] included (the call failed)
ParserRecords(titles) ==
    {r \in [original_title : Range(titles) \cup {AlteredTitle},
            market_name : MainMarkets, year : MainYears, period : MainPeriods] :
        /\ r.original_title = AlteredTitle => r.year # <<>>
        /\ r.period = TitlePeriod(r.original_title)}

\* url_map = {title: url for url, title in new_reports_to_process.items()};
\* url_map.get(title), "" standing for None
url_map_get(new_reports, title) ==
    LET hits == {i \in 1..Len(new_reports) : new_reports[i].v = title}
    IN  IF hits = {} THEN "" ELSE new_reports[Max(hits)].k

\* {url: title for url, title in report_urls_with_titles.items()
\*  if url not in urls_to_ignore}
FilterNew(reports, ignore) == SelectSeq(reports, LAMBDA e : e.k \notin ignore)

\* the union without the irrelevant urls
IgnoreSet_without_irrelevant(s_log, f_log, i_log) ==
    load_download_log(s_log).urls \cup DOMAIN load_failed_log(f_log)

\* successful_urls.union(failed_urls, irrelevant_urls)
IgnoreSet(s_log, f_log, i_log) ==
    load_download_log(s_log).urls \cup DOMAIN load_failed_log(f_log)
        \cup load_irrelevant_log(i_log)

\* the run returns (or raises): the finalizer has closed the browser.
\* clean: the page was set up and no page timed out
EndRun(res, clean) ==
    /\ result' = res
    /\ pc' = "idle"
    /\ in_flight' = {}
    /\ last' = [op |-> "run", url |-> "", filename |-> <<>>, message |-> res.message,
                before |-> NoLogs, args |-> args', clean |-> clean]

RaisedMessage == "raised"

\* how the start of _run can go: the browser does not start (the exception
\* leaves _run), the page setup or a filter raises inside the try, the page
\* setup returns False, or the page is ready
SetupOutcomes == {"no_browser", "raised", "failed", "ok"}

\* _run up to the call of extract_links_from_pages
StartRun ==
    /\ pc = "idle"
    /\ \E a \in MainArgs, setup \in SetupOutcomes :
         \* repeat: the operation finished just before was a clean run with
         \* the same arguments
         LET tr == [NoTrace EXCEPT
                      !.start_logs = Logs, !.start_tree = out_tree,
                      !.repeat = (last.op = "run" /\ last.clean /\ last.args = a)]
         IN  /\ args' = a
             /\ site' = site
             /\ found_reports' = <<>>
             /\ page_count' = 1
             /\ link_idx' = 1
             /\ should_stop_scraping' = FALSE
             /\ new_reports_to_process' = <<>>
             /\ record_idx' = 1
             /\ newly_downloaded_files' = <<>>
             /\ partially_downloaded_files' = <<>>
             /\ failed_downloads' = <<>>
             /\ UNCHANGED <<logVars, out_tree, staging, parsed_info, writerVars>>
             /\ IF load_download_log(success_log).raised
                THEN /\ EndRun(Result(RaisedMessage, 0, 0, 0), FALSE)
                     /\ trace' = tr
                     /\ UNCHANGED <<config, urls_to_ignore>>
                ELSE /\ urls_to_ignore' = IgnoreSet(success_log, failed_log, irrelevant_log)
                     /\ config' = scrape_config(a.year, a.period)
                     /\ IF setup = "no_browser"
                        THEN /\ EndRun(Result(RaisedMessage, 0, 0, 0), FALSE)
                             /\ trace' = tr
                        ELSE IF setup = "raised"
                        THEN /\ EndRun(Result(FatalMessage, 0, 0, 0), FALSE)
                             /\ trace' = close(open_session(tr))
                        ELSE IF setup = "failed"
                        THEN /\ EndRun(Result(SetupErrorMessage, 0, 0, 0), FALSE)
                             /\ trace' = close(open_session(tr))
                        ELSE /\ pc' = "page"
                             /\ last' = NoLast
                             /\ trace' = open_session(tr)
                             /\ result' = NoResult
                             /\ UNCHANGED in_flight

\* _run from the return of extract_links_from_pages to the download loop
FilterAndParse ==
    /\ pc = "crawled"
    /\ LET new_reports == FilterNew(found_reports, urls_to_ignore)
           titles_to_parse == DictValues(new_reports)
       IN  /\ new_reports_to_process' = new_reports
           /\ UNCHANGED <<record_idx, newly_downloaded_files,
                          partially_downloaded_files, failed_downloads>>
           /\ UNCHANGED <<logVars, out_tree, staging, site, args, config,
                          urls_to_ignore, crawlVars, parsed_info, writerVars>>
           /\ IF found_reports = <<>>
              THEN /\ EndRun(Result(NoReportsMessage, 0, 0, 0), ~trace.timed_out)
                   /\ trace' = close(trace)
              ELSE IF new_reports = <<>>
              THEN /\ EndRun(Result(NothingToDoMessage, 0, 0, 0), ~trace.timed_out)
                   /\ trace' = close(trace)
              ELSE /\ trace' = [trace EXCEPT !.parser_calls = Append(@, titles_to_parse)]
                   /\ pc' = "download"
                   /\ UNCHANGED <<in_flight, result, last>>

\* body of "for report_data in parsed_reports_data".  The list the title
\* parser returned is consumed front to back and nothing reads ahead in it,
\* so its next record is drawn when the iteration starts.
ProcessReport ==
    /\ pc = "download"
    /\ record_idx <= MaxRecords
    /\ \E report_data \in ParserRecords(DictValues(new_reports_to_process)) :
       LET report_url == url_map_get(new_reports_to_process, report_data.original_title)
       IN  /\ record_idx' = record_idx + 1
           /\ UNCHANGED <<irrelevant_log, site, pc, args, config, urls_to_ignore,
                          crawlVars, new_reports_to_process, result, last, parsed_info, writerVars>>
           /\ IF report_url = ""
              THEN UNCHANGED <<success_log, failed_log, fileVars,
                               newly_downloaded_files, partially_downloaded_files,
                               failed_downloads, trace>>
              ELSE \E control \in BOOLEAN, name \in DownloadNames,
                      gone \in SUBSET in_flight, moving \in BOOLEAN :
                   LET own == [name |-> name, src |-> report_url]
                   IN  \E arrived \in SUBSET ((in_flight \ gone) \cup {own}) :
                       \E picked \in (IF arrived = {} THEN {own} ELSE arrived) :
                       LET out == Downloader(report_url, report_data, BASE_REPORT_PATH,
                                             staging, in_flight, out_tree, control,
                                             own, gone, arrived, picked, moving)
                       IN  /\ staging' = out.staging
                           /\ in_flight' = out.in_flight
                           /\ out_tree' = out.tree
                           /\ trace' = [trace EXCEPT
                                  !.downloader_calls = Append(@, report_url),
                                  !.attempt = Attempt(report_url, report_data, out)]
                           /\ IF out.status = "success"
                              THEN /\ success_log' = update_download_log(success_log, report_url, out.data)
                                   /\ newly_downloaded_files' = Append(newly_downloaded_files, out.data)
                                   /\ UNCHANGED <<failed_log, partially_downloaded_files, failed_downloads>>
                              ELSE IF out.status = "partial_success"
                              THEN /\ failed_log' = update_failed_log(failed_log, report_url, PartialReason)
                                   /\ partially_downloaded_files' = Append(partially_downloaded_files, out.data)
                                   /\ UNCHANGED <<success_log, newly_downloaded_files, failed_downloads>>
                              ELSE /\ failed_log' = update_failed_log(failed_log, report_url, out.data)
                                   /\ failed_downloads' = Append(failed_downloads, report_url)
                                   /\ UNCHANGED <<success_log, newly_downloaded_files, partially_downloaded_files>>

\* the final report of _run, after the last record
Summarize ==
    /\ pc = "download"
    /\ UNCHANGED <<logVars, out_tree, staging, site, args, config, urls_to_ignore,
                   crawlVars, processVars, parsed_info, writerVars>>
    /\ trace' = close(trace)
    /\ IF /\ newly_downloaded_files = <<>>
          /\ partially_downloaded_files = <<>>
          /\ failed_downloads = <<>>
       THEN EndRun(Result(NothingToDoMessage, 0, 0, 0), ~trace.timed_out)
       ELSE EndRun(Result(SummaryMessage, Len(newly_downloaded_files),
                          Len(partially_downloaded_files), Len(failed_downloads)),
                   ~trace.timed_out)

\* the wait for the results container raises something else than a
\* timeout (the browser is gone): the catch-all of _run returns the
\* diagnostic string and the finalizer closes the session
PageRaises ==
    /\ pc = "page"
    /\ UNCHANGED <<logVars, out_tree, staging, site, args, config, urls_to_ignore,
                   crawlVars, processVars, parsed_info, writerVars>>
    /\ trace' = close(trace)
    /\ EndRun(Result(FatalMessage, 0, 0, 0), FALSE)

\* ------------------------------------------------- scripts/log_manager.py
PromoteUrls == {"u1", "u2"}

PromoteFilenames == {<<"fixed", ".pdf">>}

\* promote_to_success(url_to_promote, new_filename)
promote_to_success(url_to_promote, new_filename) ==
    /\ pc = "idle"
    /\ trace' = NoTrace
    /\ result' = NoResult
    /\ LET failed == load_log(failed_log)
           success == load_log(success_log)
       IN  IF url_to_promote \notin DOMAIN failed
           THEN /\ last' = Command("promote", url_to_promote, new_filename,
                                    NotFoundMessage, Logs)
                /\ UNCHANGED logVars
           ELSE /\ failed_log' = JsonFile(MapPop(failed, url_to_promote))
                /\ success_log' = JsonFile(MapSet(success, url_to_promote, new_filename))
                /\ last' = Command("promote", url_to_promote, new_filename,
                                    PromotedMessage, Logs)
                /\ UNCHANGED irrelevant_log
    /\ UNCHANGED <<fileVars, site, pc, args, config, urls_to_ignore, crawlVars,
                   processVars, parsed_info, writerVars>>

Promote == \E url \in PromoteUrls, new_filename \in PromoteFilenames :
               promote_to_success(url, new_filename)

\* mark_as_irrelevant without the test that the url is in the failed log
mark_as_irrelevant_unchecked(url_to_mark) ==
    /\ pc = "idle"
    /\ trace' = NoTrace
    /\ result' = NoResult
    /\ failed_log' = JsonFile(MapPop(load_log(failed_log), url_to_mark))
    /\ irrelevant_log' = JsonFile(MapSet(load_log(irrelevant_log), url_to_mark, IrrelevantMarker))
    /\ last' = Command("mark", url_to_mark, <<>>,
                       IF url_to_mark \in DOMAIN load_log(failed_log)
                       THEN MarkedMessage ELSE NotFoundMessage, Logs)
    /\ UNCHANGED <<success_log, fileVars, site, pc, args, config, urls_to_ignore,
                   crawlVars, processVars, parsed_info, writerVars>>

\* mark_as_irrelevant(url_to_mark)
mark_as_irrelevant(url_to_mark) ==
    /\ pc = "idle"
    /\ trace' = NoTrace
    /\ result' = NoResult
    /\ LET failed == load_log(failed_log)
           irrelevant == load_log(irrelevant_log)
       IN  IF url_to_mark \notin DOMAIN failed
           THEN /\ last' = Command("mark", url_to_mark, <<>>, NotFoundMessage, Logs)
                /\ UNCHANGED logVars
           ELSE /\ failed_log' = JsonFile(MapPop(failed, url_to_mark))
                /\ irrelevant_log' = JsonFile(MapSet(irrelevant, url_to_mark, IrrelevantMarker))
                /\ last' = Command("mark", url_to_mark, <<>>, MarkedMessage, Logs)
                /\ UNCHANGED success_log
    /\ UNCHANGED <<fileVars, site, pc, args, config, urls_to_ignore, crawlVars,
                   processVars, parsed_info, writerVars>>

MarkIrrelevant == \E url \in PromoteUrls : mark_as_irrelevant(url)

\* ------------------------------------------------------ the whole system
\* before the first run no log exists; one of them may hold text that is
\* not JSON
InitialLogs ==
    {NoLogs, [NoLogs EXCEPT !.success_log = CorruptFile],
     [NoLogs EXCEPT !.failed_log = CorruptFile],
     [NoLogs EXCEPT !.irrelevant_log = CorruptFile]}

Init ==
    /\ \E logs \in InitialLogs :
          /\ success_log = logs.success_log
          /\ failed_log = logs.failed_log
          /\ irrelevant_log = logs.irrelevant_log
    /\ out_tree = EmptyMap
    /\ staging = {}
    /\ in_flight = {}
    /\ site \in MainSites
    /\ pc = "idle"
    /\ args = NoArgs
    /\ config = scrape_config(NoYear, NoPeriod)
    /\ urls_to_ignore = {}
    /\ found_reports = <<>>
    /\ page_count = 1
    /\ link_idx = 1
    /\ should_stop_scraping = FALSE
    /\ new_reports_to_process = <<>>
    /\ record_idx = 1
    /\ newly_downloaded_files = <<>>
    /\ partially_downloaded_files = <<>>
    /\ failed_downloads = <<>>
    /\ result = NoResult
    /\ trace = NoTrace
    /\ last = NoLast
    /\ parsed_info = NoInfo
    /\ command = NoCommand
    /\ upsert = NoUpsert

Next ==
    \/ StartRun
    \/ ScrapePage
    \/ ExamineLink
    \/ NextPage
    \/ PageRaises
    \/ FilterAndParse
    \/ ProcessReport
    \/ Summarize
    \/ Promote
    \/ MarkIrrelevant

Spec == Init /\ [][Next]_vars

\* ------------------------------------- runs on a listing with a half year
\* the runs alone, on a site that lists a quarterly and a half-year report
InitPeriod ==
    /\ success_log = MissingFile
    /\ failed_log = MissingFile
    /\ irrelevant_log = MissingFile
    /\ out_tree = EmptyMap
    /\ staging = {}
    /\ in_flight = {}
    /\ site = << <<Link("u1", MainTitle), Link("u2", HalfYearTitle)>> >>
    /\ pc = "idle"
    /\ args = NoArgs
    /\ config = scrape_config(NoYear, NoPeriod)
    /\ urls_to_ignore = {}
    /\ found_reports = <<>>
    /\ page_count = 1
    /\ link_idx = 1
    /\ should_stop_scraping = FALSE
    /\ new_reports_to_process = <<>>
    /\ record_idx = 1
    /\ newly_downloaded_files = <<>>
    /\ partially_downloaded_files = <<>>
    /\ failed_downloads = <<>>
    /\ result = NoResult
    /\ trace = NoTrace
    /\ last = NoLast
    /\ parsed_info = NoInfo
    /\ command = NoCommand
    /\ upsert = NoUpsert

NextPeriod ==
    \/ StartRun
    \/ ScrapePage
    \/ ExamineLink
    \/ NextPage
    \/ PageRaises
    \/ FilterAndParse
    \/ ProcessReport
    \/ Summarize

SpecPeriod == InitPeriod /\ [][NextPeriod]_vars

\* --------------------------------------- the download step on its own
MarketChars == invalid_chars \cup {"Boston", " "}

DownloadInfos ==
    [original_title : {MainTitle},
     market_name : SeqsUpTo(MarketChars, MaxMarketLen),
     year : {<<>>, <<" ">>, <<"2024">>, <<"..">>, <<"/", "tmp">>},
     period : {<<>>, <<"Q1">>}]

DownloadUrls == {"u1", "u2"}

InitDownload ==
    /\ success_log = MissingFile
    /\ failed_log = MissingFile
    /\ irrelevant_log = MissingFile
    /\ out_tree = EmptyMap
    /\ staging = {}
    /\ in_flight = {}
    /\ site = << <<Link("u1", MainTitle), Link("u2", MainTitle)>> >>
    /\ pc = "downloader"
    /\ args = NoArgs
    /\ config = scrape_config(NoYear, NoPeriod)
    /\ urls_to_ignore = {}
    /\ found_reports = <<>>
    /\ page_count = 1
    /\ link_idx = 1
    /\ should_stop_scraping = FALSE
    /\ new_reports_to_process = <<>>
    /\ record_idx = 1
    /\ newly_downloaded_files = <<>>
    /\ partially_downloaded_files = <<>>
    /\ failed_downloads = <<>>
    /\ result = NoResult
    /\ trace = NoTrace
    /\ last = NoLast
    /\ parsed_info \in DownloadInfos
    /\ command = NoCommand
    /\ upsert = NoUpsert

\* downloader._run(report_url, parsed_info, BASE_REPORT_PATH), once per url
RunDownloader ==
    /\ pc = "downloader"
    /\ \E report_url \in DownloadUrls \ Range(trace.downloader_calls),
          control \in BOOLEAN, name \in DownloadNames,
          gone \in SUBSET in_flight, moving \in BOOLEAN :
       LET own == [name |-> name, src |-> report_url]
       IN  \E arrived \in SUBSET ((in_flight \ gone) \cup {own}) :
           \E picked \in (IF arrived = {} THEN {own} ELSE arrived) :
           LET out == Downloader(report_url, parsed_info, BASE_REPORT_PATH,
                                 staging, in_flight, out_tree, control,
                                 own, gone, arrived, picked, moving)
           IN  /\ staging' = out.staging
               /\ in_flight' = out.in_flight
               /\ out_tree' = out.tree
               /\ trace' = [trace EXCEPT
                               !.start_tree = out_tree,
                               !.downloader_calls = Append(@, report_url),
                               !.attempt = Attempt(report_url, parsed_info, out)]
    /\ UNCHANGED <<logVars, site, pc, args, config, urls_to_ignore, crawlVars,
                   processVars, result, last, parsed_info, writerVars>>

NextDownload == RunDownloader

SpecDownload == InitDownload /\ [][NextDownload]_vars

\* ------------------------------------------ the log writers step by step
\* A log command (scripts/log_manager.py) and the update_failed_log call of
\* a run (utils/file_utils.py) are separate programs on the same files: each
\* reads, changes its dicts in memory and rewrites, and the steps of the two
\* can interleave.
WriterUrls == {"u1", "u2"}

WriterReasons == {<<"Download timed out">>}

WriterLogs ==
    [success_log : {MissingFile, JsonFile(MapSet(EmptyMap, "u1", <<"old", ".pdf">>))},
     failed_log : {MissingFile, JsonFile(MapSet(EmptyMap, "u1", PartialReason)),
                   JsonFile(MapSet(MapSet(EmptyMap, "u1", PartialReason), "u2", PartialReason))},
     irrelevant_log : {MissingFile, JsonFile(MapSet(EmptyMap, "u3", IrrelevantMarker))}]

InitWriters ==
    /\ \E logs \in WriterLogs :
          /\ success_log = logs.success_log
          /\ failed_log = logs.failed_log
          /\ irrelevant_log = logs.irrelevant_log
    /\ out_tree = EmptyMap
    /\ staging = {}
    /\ in_flight = {}
    /\ site = << <<Link("u1", MainTitle), Link("u2", MainTitle)>> >>
    /\ pc = "writers"
    /\ args = NoArgs
    /\ config = scrape_config(NoYear, NoPeriod)
    /\ urls_to_ignore = {}
    /\ found_reports = <<>>
    /\ page_count = 1
    /\ link_idx = 1
    /\ should_stop_scraping = FALSE
    /\ new_reports_to_process = <<>>
    /\ record_idx = 1
    /\ newly_downloaded_files = <<>>
    /\ partially_downloaded_files = <<>>
    /\ failed_downloads = <<>>
    /\ result = NoResult
    /\ trace = NoTrace
    /\ last = NoLast
    /\ parsed_info = NoInfo
    /\ command = NoCommand
    /\ upsert = NoUpsert

\* every variable but the logs and the two writers
restVars == <<fileVars, site, pc, args, config, urls_to_ignore, crawlVars, processVars,
              result, trace, last, parsed_info>>

\* an update_failed_log call is between its read and its rewrite
UpsertInProgress == upsert.pc = "read"

\* a log command is between its loads and its last write
CommandInProgress == command.pc \in {"loaded", "failed_written"}

\* promote_to_success / mark_as_irrelevant up to the first write: the two
\* loads, the membership test, the pop and the assignment in memory
CommandLoad(op, url, new_filename) ==
    /\ pc = "writers"
    /\ command.pc = "idle"
    /\ LET failed == load_log(failed_log)
           dest == load_log(IF op = "promote" THEN success_log ELSE irrelevant_log)
           value == IF op = "promote" THEN new_filename ELSE IrrelevantMarker
       IN  command' =
              [pc |-> IF url \in DOMAIN failed THEN "loaded" ELSE "not_found",
               op |-> op, url |-> url, filename |-> value,
               failed_log |-> IF url \in DOMAIN failed THEN MapPop(failed, url) ELSE failed,
               dest_log |-> IF url \in DOMAIN failed THEN MapSet(dest, url, value) ELSE dest,
               before |-> Logs, overlap |-> UpsertInProgress]
    /\ UNCHANGED <<logVars, upsert, restVars>>

\* the first write of a command with the destination file opened instead
CommandWriteDestinationFirst ==
    /\ pc = "writers"
    /\ command.pc = "loaded"
    /\ IF command.op = "promote"
       THEN success_log' = JsonFile(command.dest_log) /\ UNCHANGED <<failed_log, irrelevant_log>>
       ELSE irrelevant_log' = JsonFile(command.dest_log) /\ UNCHANGED <<failed_log, success_log>>
    /\ command' = [command EXCEPT !.pc = "failed_written"]
    /\ UNCHANGED <<upsert, restVars>>

\* with open(FAILED_LOG_PATH, 'w'): json.dump(failed_log, f)
CommandWriteFailed ==
    /\ pc = "writers"
    /\ command.pc = "loaded"
    /\ failed_log' = JsonFile(command.failed_log)
    /\ command' = [command EXCEPT !.pc = "failed_written"]
    /\ UNCHANGED <<success_log, irrelevant_log, upsert, restVars>>

\* with open(SUCCESS_LOG_PATH or IRRELEVANT_LOG_PATH, 'w'): json.dump(...)
CommandWriteDestination ==
    /\ pc = "writers"
    /\ command.pc = "failed_written"
    /\ IF command.op = "promote"
       THEN success_log' = JsonFile(command.dest_log) /\ UNCHANGED <<failed_log, irrelevant_log>>
       ELSE irrelevant_log' = JsonFile(command.dest_log) /\ UNCHANGED <<failed_log, success_log>>
    /\ command' = [command EXCEPT !.pc = "done"]
    /\ UNCHANGED <<upsert, restVars>>

\* the process of the command dies between its two writes
CommandCrash ==
    /\ pc = "writers"
    /\ command.pc = "failed_written"
    /\ command' = [command EXCEPT !.pc = "crashed"]
    /\ UNCHANGED <<logVars, upsert, restVars>>

\* update_failed_log: data = load_failed_log(log_path); data[url] = str(reason)
UpsertRead(url, reason) ==
    /\ pc = "writers"
    /\ upsert.pc = "idle"
    /\ upsert' = [pc |-> "read", url |-> url, reason |-> reason,
                  data |-> MapSet(load_failed_log(failed_log), url, reason),
                  before |-> Logs, overlap |-> CommandInProgress]
    /\ UNCHANGED <<logVars, command, restVars>>

\* the rewrite of update_failed_log with the new entry alone
UpsertWriteOnlyNew ==
    /\ pc = "writers"
    /\ upsert.pc = "read"
    /\ failed_log' = JsonFile(MapSet(EmptyMap, upsert.url, upsert.reason))
    /\ upsert' = [upsert EXCEPT !.pc = "done"]
    /\ UNCHANGED <<success_log, irrelevant_log, command, restVars>>

\* update_failed_log: with open(log_path, 'w'): json.dump(data, f)
UpsertWrite ==
    /\ pc = "writers"
    /\ upsert.pc = "read"
    /\ failed_log' = JsonFile(upsert.data)
    /\ upsert' = [upsert EXCEPT !.pc = "done"]
    /\ UNCHANGED <<success_log, irrelevant_log, command, restVars>>

NextWriters ==
    \/ \E op \in {"promote", "mark"}, url \in WriterUrls, new_filename \in PromoteFilenames :
          CommandLoad(op, url, new_filename)
    \/ CommandWriteFailed
    \/ CommandWriteDestination
    \/ CommandCrash
    \/ \E url \in WriterUrls, reason \in WriterReasons : UpsertRead(url, reason)
    \/ UpsertWrite

SpecWriters == InitWriters /\ [][NextWriters]_vars

\* ------------------------------------------- claims on the logs and the run
\* the urls that are keys of some log when the run starts
StartKeys ==
    FileKeys(trace.start_logs.success_log) \cup FileKeys(trace.start_logs.failed_log)
        \cup FileKeys(trace.start_logs.irrelevant_log)

\* C1: in one run, no url that is a key of the success, failed or irrelevant
\* log when the run starts is passed to the downloader or is among the new
\* reports, and the titles sent to the title parser are the titles of the
\* new reports only.
C1_LoggedUrlsSkipped ==
    /\ Range(trace.downloader_calls) \cap StartKeys = {}
    /\ DictKeys(new_reports_to_process) \cap StartKeys = {}
    /\ \A n \in 1..Len(trace.parser_calls) :
          trace.parser_calls[n] = DictValues(new_reports_to_process)
    /\ Range(trace.downloader_calls) \subseteq DictKeys(new_reports_to_process)

C1_Witness ==
    /\ FileKeys(trace.start_logs.irrelevant_log) \cap DictKeys(found_reports) # {}
    /\ FileKeys(trace.start_logs.success_log) # {}
    /\ trace.downloader_calls # <<>>
    /\ pc = "idle"

\* C2: whenever no operation is in progress, no url is a key of more than
\* one of the success, failed and irrelevant logs.
C2_LogsDisjoint ==
    pc = "idle" =>
       /\ FileKeys(success_log) \cap FileKeys(failed_log) = {}
       /\ FileKeys(success_log) \cap FileKeys(irrelevant_log) = {}
       /\ FileKeys(failed_log) \cap FileKeys(irrelevant_log) = {}

\* the entries of a log file other than url are the same in both files
SameExcept(before, after, url) ==
    /\ FileKeys(after) \ {url} = FileKeys(before) \ {url}
    /\ \A k \in FileKeys(before) \ {url} : after.data[k] = before.data[k]

\* C3: promote(url, filename) with url a key of the failed log ends with url
\* absent from the failed log and success_log[url] = filename; the other
\* entries of both logs are unchanged and the irrelevant log is untouched.
C3_Promote ==
    (last.op = "promote" /\ last.url \in FileKeys(last.before.failed_log)) =>
       /\ failed_log.st = "ok"
       /\ last.url \notin FileKeys(failed_log)
       /\ SameExcept(last.before.failed_log, failed_log, last.url)
       /\ success_log.st = "ok"
       /\ last.url \in FileKeys(success_log)
       /\ success_log.data[last.url] = last.filename
       /\ SameExcept(last.before.success_log, success_log, last.url)
       /\ irrelevant_log = last.before.irrelevant_log

C3_Witness ==
    /\ last.op = "promote"
    /\ last.url \in FileKeys(last.before.failed_log)
    /\ FileKeys(last.before.failed_log) # {last.url}
    /\ success_log.data[last.url] = last.filename

\* C4: mark-irrelevant(url) with url a key of the failed log ends with url
\* absent from the failed log and irrelevant_log[url] = "Marked as
\* irrelevant by user."; the other entries of both logs are unchanged and
\* the success log is untouched.
C4_MarkIrrelevant ==
    (last.op = "mark" /\ last.url \in FileKeys(last.before.failed_log)) =>
       /\ failed_log.st = "ok"
       /\ last.url \notin FileKeys(failed_log)
       /\ SameExcept(last.before.failed_log, failed_log, last.url)
       /\ irrelevant_log.st = "ok"
       /\ last.url \in FileKeys(irrelevant_log)
       /\ irrelevant_log.data[last.url] = <<"Marked as irrelevant by user.">>
       /\ SameExcept(last.before.irrelevant_log, irrelevant_log, last.url)
       /\ success_log = last.before.success_log

C4_Witness ==
    /\ last.op = "mark"
    /\ last.url \in FileKeys(last.before.failed_log)
    /\ FileKeys(last.before.failed_log) # {last.url}
    /\ last.url \in FileKeys(irrelevant_log)

\* C5: promote and mark-irrelevant with a url that is not a key of the
\* failed log (the file may be missing or hold no JSON) report the error
\* and leave the three log files as they were: nothing is written or created.
C5_AbsentUrl ==
    (last.op \in {"promote", "mark"} /\ last.url \notin FileKeys(last.before.failed_log)) =>
       /\ last.message = NotFoundMessage
       /\ Logs = last.before

C5_Witness ==
    /\ last.op = "mark"
    /\ last.before.failed_log.st = "corrupt"
    /\ last.message = NotFoundMessage
    /\ failed_log.st = "corrupt"

\* C9: a run that directly follows a run with the same arguments on the same
\* site, both with the page set up and no page timing out, returns the
\* nothing-to-do summary, calls neither the title parser nor the downloader
\* and changes no log and no file of the output tree.
C9_SecondRunIdle ==
    (pc = "idle" /\ last.op = "run" /\ last.clean /\ trace.repeat) =>
       /\ result.message = NothingToDoMessage
       /\ trace.parser_calls = <<>>
       /\ trace.downloader_calls = <<>>
       /\ Logs = trace.start_logs
       /\ out_tree = trace.start_tree

\* ------------------------------------------- claims on the download step
IsPrefix(p, q) == Len(p) <= Len(q) /\ SubSeq(q, 1, Len(p)) = p

SeparatorCount(path) == Cardinality({i \in 1..Len(path) : path[i] = "/"})

\* the segments of a path
Segments(path) ==
    {SubSeq(path, i, j) : <<i, j>> \in
        {ij \in (1..Len(path)) \X (1..Len(path)) :
            /\ ij[1] <= ij[2]
            /\ \A n \in ij[1]..ij[2] : path[n] # "/"
            /\ ij[1] = 1 \/ path[ij[1] - 1] = "/"
            /\ ij[2] = Len(path) \/ path[ij[2] + 1] = "/"}}

\* sub occurs in s as a contiguous run
Occurs(sub, s) ==
    \E i \in 1..((Len(s) - Len(sub)) + 1) : SubSeq(s, i, (i + Len(sub)) - 1) = sub

ParsingErrorFolder ==
    BASE_REPORT_PATH \o <<"/", "failed_downloads", "/", "Parsing_Error", "/">>

YearMissing == trace.attempt.url # "" /\ Strip(trace.attempt.info.year) = <<>>

\* C8 as stated: every call of the downloader with a Parsed Report whose
\* year is missing or empty returns partial_success and leaves the
\* downloaded file under <base>/failed_downloads/Parsing_Error/.
C8_AlwaysPartial ==
    YearMissing =>
       /\ trace.attempt.status = "partial_success"
       /\ IsPrefix(ParsingErrorFolder, trace.attempt.path)
       /\ trace.attempt.path \in DOMAIN out_tree

\* C8 amended: a call of the downloader with a Parsed Report whose year is
\* missing or empty returns partial_success and leaves the downloaded file
\* under <base>/failed_downloads/Parsing_Error/ when the download control
\* is found, a PDF is staged in time and the move raises nothing; otherwise
\* it returns error and saves nothing.  It never returns success and never
\* puts a file anywhere but under Parsing_Error.
C8_MissingYear ==
    YearMissing =>
       /\ trace.attempt.status # "success"
       /\ trace.attempt.step = "organized" =>
             /\ trace.attempt.status = "partial_success"
             /\ IsPrefix(ParsingErrorFolder, trace.attempt.path)
             /\ SeparatorCount(trace.attempt.path) = SeparatorCount(ParsingErrorFolder)
             /\ trace.attempt.path \in DOMAIN out_tree
             /\ \E f \in trace.attempt.picked : out_tree[trace.attempt.path] = f.src
       /\ trace.attempt.step # "organized" =>
             /\ trace.attempt.status = "error"
             /\ out_tree = trace.start_tree
       /\ \A path \in DOMAIN out_tree : IsPrefix(ParsingErrorFolder, path)

C8_Witness ==
    /\ trace.attempt.url # ""
    /\ trace.attempt.info.year = <<" ">>
    /\ trace.attempt.info.market_name = <<"Boston">>
    /\ trace.attempt.info.period = <<"Q1">>
    /\ trace.attempt.status = "partial_success"
    /\ trace.attempt.path \in DOMAIN out_tree

\* C10: on success every character / \ : * ? " < > | of the parsed market
\* name is a space in the returned filename and every other character is
\* kept; the file is saved three levels below the output root, the filename
\* being one segment, and a market name with / or : is not found verbatim in
\* any segment of the path.
C10_MarketSanitized ==
    trace.attempt.status = "success" =>
       LET raw == Strip(trace.attempt.info.market_name)
           name == trace.attempt.data
           path == trace.attempt.path
       IN  /\ Len(name) > Len(raw)
           /\ \A i \in 1..Len(raw) :
                 name[i] = IF raw[i] \in {"/", "\\", ":", "*", "?", "\"", "<", ">", "|"}
                           THEN " " ELSE raw[i]
           /\ path \in DOMAIN out_tree
           /\ ("/" \notin Range(trace.attempt.info.year)
                  /\ "/" \notin Range(trace.attempt.info.period)) =>
                 /\ name \in Segments(path)
                 /\ SeparatorCount(path) = SeparatorCount(BASE_REPORT_PATH) + 3
           /\ (Range(raw) \cap {"/", ":"} # {}) =>
                 \A segment \in Segments(path) : ~Occurs(raw, segment)

C10_Witness ==
    /\ trace.attempt.status = "success"
    /\ trace.attempt.info.market_name = <<"/", ":">>
    /\ trace.attempt.data = <<" ", " ", " ", "2024", " ", "Q1", ".pdf">>
    /\ trace.attempt.path \in DOMAIN out_tree

\* ------------------------------------- claims on failures and the session
\* a run has just returned or raised
RunEnded == pc = "idle" /\ last.op = "run"

\* C11: a run never lets an exception reach its caller: whatever fails, from
\* the loading of the three logs on, the run returns a string.
C11_NeverRaises == RunEnded => result.message # RaisedMessage

\* C12: while a run uses the browser the session is open and has not been
\* closed; when a run that opened the session ends, by any of its exits, the
\* session has been closed exactly once, and the result is there only then.
C12_SessionClosedOnce ==
    /\ pc \in {"page", "links", "crawled", "download"} =>
          /\ trace.session = "open"
          /\ trace.closes = 0
          /\ result = NoResult
    /\ RunEnded =>
          \/ trace.session = "closed" /\ trace.closes = 1
          \/ trace.session = "none" /\ trace.closes = 0 /\ result.message = RaisedMessage
    /\ (RunEnded /\ result.message \in {SetupErrorMessage, NoReportsMessage,
                                        NothingToDoMessage, SummaryMessage, FatalMessage}) =>
          trace.session = "closed" /\ trace.closes = 1

C12_Witness ==
    /\ RunEnded
    /\ result.message = FatalMessage
    /\ trace.examined # <<>>
    /\ trace.clicks = 1
    /\ trace.session = "closed"
    /\ trace.closes = 1

\* C13: loading a log whose file is missing or does not hold JSON gives the
\* empty mapping or the empty key set and raises nothing, for the loaders of
\* the run (seen on the files a run started from) and for the loader of the
\* log commands (seen on the files a command started from).
C13_LoadersTolerant ==
    /\ RunEnded =>
          /\ trace.start_logs.success_log.st # "ok" =>
                /\ ~load_download_log(trace.start_logs.success_log).raised
                /\ load_download_log(trace.start_logs.success_log).urls = {}
          /\ trace.start_logs.failed_log.st # "ok" =>
                load_failed_log(trace.start_logs.failed_log) = EmptyMap
          /\ trace.start_logs.irrelevant_log.st # "ok" =>
                load_irrelevant_log(trace.start_logs.irrelevant_log) = {}
    /\ last.op \in {"promote", "mark"} =>
          \A file \in {last.before.success_log, last.before.failed_log,
                       last.before.irrelevant_log} :
             file.st # "ok" => load_log(file) = EmptyMap

\* the number of logs that hold url as a key
LogCount(url) ==
    (IF url \in FileKeys(success_log) THEN 1 ELSE 0)
        + (IF url \in FileKeys(failed_log) THEN 1 ELSE 0)
        + (IF url \in FileKeys(irrelevant_log) THEN 1 ELSE 0)

\* C14: when a run ends with its summary, every url the crawler returned
\* that was not in the ignore set is a key of exactly one of the three logs,
\* whatever records the title parser returned.
C14_OneLogEntryEach ==
    (RunEnded /\ result.message \in {SummaryMessage, NothingToDoMessage, NoReportsMessage}) =>
       \A url \in DictKeys(found_reports) \ urls_to_ignore : LogCount(url) = 1

\* C15: the downloader is called at most once for a url: not twice in one
\* run, and not in a later run, every url it was called on being a key of a
\* log from the end of its run on and no key of a log being downloaded.
C15_AtMostOnce ==
    /\ \A i, j \in 1..Len(trace.downloader_calls) :
          trace.downloader_calls[i] = trace.downloader_calls[j] => i = j
    /\ Range(trace.downloader_calls) \cap StartKeys = {}
    /\ (pc \in {"idle", "download"}) =>
          \A url \in Range(trace.downloader_calls) : LogCount(url) >= 1

\* the step is one iteration of the download loop that called the downloader
DownloadStep ==
    pc = "download" /\ Len(trace'.downloader_calls) = Len(trace.downloader_calls) + 1

\* the step belongs to a run, not to a log command
RunStep == pc # "idle" \/ pc' # "idle" \/ last'.op = "run"

\* after is before with after[url] = value
Upsert(before, after, url, value) ==
    /\ after.st = "ok"
    /\ url \in FileKeys(after)
    /\ after.data[url] = value
    /\ SameExcept(before, after, url)

\* C16: each outcome of the downloader is written to one log and to no
\* other: success sets success_log[url] to the returned filename,
\* partial_success sets failed_log[url] to "Partial Success -
\* Parsing/Organizing Failed", error sets failed_log[url] to the error
\* description; the other entries of the written log stay, no other step of
\* a run writes a log and a run never writes the irrelevant log.
C16_OutcomeRouting ==
    [][/\ DownloadStep =>
             /\ trace'.attempt.status \in {"success", "partial_success", "error"}
             /\ trace'.attempt.status = "success" =>
                   /\ Upsert(success_log, success_log', trace'.attempt.url, trace'.attempt.data)
                   /\ failed_log' = failed_log
             /\ trace'.attempt.status = "partial_success" =>
                   /\ Upsert(failed_log, failed_log', trace'.attempt.url,
                             <<"Partial Success - Parsing/Organizing Failed">>)
                   /\ success_log' = success_log
             /\ trace'.attempt.status = "error" =>
                   /\ Upsert(failed_log, failed_log', trace'.attempt.url, trace'.attempt.data)
                   /\ trace'.attempt.data # <<>>
                   /\ success_log' = success_log
       /\ (RunStep /\ ~DownloadStep) =>
             success_log' = success_log /\ failed_log' = failed_log
       /\ RunStep => irrelevant_log' = irrelevant_log
      ]_vars

C16_Witness ==
    /\ pc = "download"
    /\ trace.attempt.status = "success"
    /\ success_log.st = "ok"
    /\ success_log.data[trace.attempt.url] = trace.attempt.data
    /\ FileKeys(success_log) \ {trace.attempt.url} # {}
    /\ FileKeys(irrelevant_log) # {}

\* C17: a call of the downloader that fails (control not found, download
\* timed out, exception while organizing) returns error, its url is written
\* to the failed log with the error description and counted as failed, and
\* the loop goes on with the next record: the run has not ended.
C17_FailureDoesNotAbort ==
    [][(DownloadStep /\ trace'.attempt.step \in
            {"control_timeout", "download_timeout", "organize_exception"}) =>
          /\ trace'.attempt.status = "error"
          /\ trace'.attempt.data # <<>>
          /\ trace'.attempt.url \in FileKeys(failed_log')
          /\ failed_log'.data[trace'.attempt.url] = trace'.attempt.data
          /\ failed_downloads' = Append(failed_downloads, trace'.attempt.url)
          /\ pc' = "download"
          /\ record_idx' = record_idx + 1
          /\ result' = NoResult
          /\ trace'.session = "open"
      ]_vars

C17_Witness ==
    /\ pc = "download"
    /\ failed_downloads # <<>>
    /\ Len(trace.downloader_calls) = 2
    /\ trace.attempt.status = "success"
    /\ trace.attempt.url \notin Range(failed_downloads)
    /\ failed_downloads[1] \in FileKeys(failed_log)

\* C18: no step removes or replaces a file of the output tree: a path that
\* holds a file holds the same file after every download attempt, so two
\* urls with the same market, year and period, or with the same download
\* filename, both keep their file.
C18_NeverOverwrites ==
    [][\A path \in DOMAIN out_tree :
          /\ path \in DOMAIN out_tree'
          /\ out_tree'[path] = out_tree[path]
      ]_vars

\* the ignore set a run would compute from the files as they are
AllKeys == FileKeys(success_log) \cup FileKeys(failed_log) \cup FileKeys(irrelevant_log)

\* C19: no step of a run and no promote or mark-irrelevant takes a url out
\* of the union of the keys of the three logs, and the downloader is never
\* called on a url that was in that union when its run started.
C19_IgnoreSetGrows ==
    [][/\ AllKeys \subseteq AllKeys'
       /\ DownloadStep => trace'.attempt.url \notin StartKeys
      ]_vars

C19_Witness ==
    /\ RunEnded
    /\ \E url \in FileKeys(trace.start_logs.success_log) \cap DictKeys(found_reports) :
          /\ trace.start_logs.success_log.data[url] = <<"fixed", ".pdf">>
          /\ url \notin DictKeys(new_reports_to_process)
          /\ url \in FileKeys(success_log)
    /\ FileKeys(irrelevant_log) \cap DictKeys(found_reports) # {}

\* ------------------------------------------- claims on the period ordering
\* the date the looser pattern reads in a title
LooseDate(text) == ReSearch(LoosePeriodTokens, link_text_lower(text))

\* the ordering as documented: Q1=1, Q2=H1=2, Q3=3, Q4=H2=4, year-end
\* variants = 4
OrderingValue(period) ==
    CASE period \in {"q1", "Q1"} -> 1
      [] period \in {"q2", "Q2", "h1", "H1"} -> 2
      [] period \in {"q3", "Q3"} -> 3
      [] period \in {"q4", "Q4", "h2", "H2", "year-end", "ye", "full-year"} -> 4
      [] OTHER -> 0

\* the crawl stopped at the n-th examined link
StoppedAt(n) == n = Len(trace.examined) /\ should_stop_scraping

\* C20: in the early-stop comparison every period the looser pattern accepts
\* counts by the ordering Q1=1, Q2=H1=2, Q3=3, Q4=H2=4, year-end = ye =
\* full-year = 4, as year*4+value; so a title of the target year with
\* year-end, ye or full-year never stops the crawl.
C20_PeriodOrdering ==
    (config.enable_early_stopping /\ config.target_year # NoYear) =>
       \A n \in 1..Len(trace.examined) :
          (trace.examined[n].eligible /\ LooseDate(ExaminedLink(n).text).matched) =>
             LET date == LooseDate(ExaminedLink(n).text)
             IN  /\ config.target_period # NoPeriod =>
                       (StoppedAt(n) <=>
                           (date.year * 4) + OrderingValue(date.period)
                             < (config.target_year * 4) + OrderingValue(config.target_period))
                 /\ (date.year = config.target_year
                        /\ date.period \in {"year-end", "ye", "full-year"}) =>
                       ~StoppedAt(n)

\* --------------------------------------- claims on the scope of the early stop
\* the verdict of the early-stop test on a title
StopTest(text) ==
    should_stop(text, config.enable_early_stopping, config.target_year, config.target_period)

\* C21: with early stopping enabled and a target year set, the early-stop
\* test is applied to every examined link that passes the keyword filter,
\* kept or skipped, with its url already in the result or not: the crawl
\* stops at such a link exactly when the test says its title is older than
\* the target.
C21_StopTestOnEveryLink ==
    (config.enable_early_stopping /\ config.target_year # NoYear) =>
       \A n \in 1..Len(trace.examined) :
          MatchesSearchTerms(ExaminedLink(n).text, config.search_terms) =>
             (StoppedAt(n) <=> StopTest(ExaminedLink(n).text))

\* ------------------------------------------- claims on the end of the crawl
\* the examined links the keep rule collected
KeptLinks == {n \in 1..Len(trace.examined) : trace.examined[n].kept}

\* every link of the pages 1..p was examined
ExaminedAllUpTo(p) ==
    \A q \in 1..p : \A i \in 1..Len(site[q]) :
       \E n \in 1..Len(trace.examined) :
          trace.examined[n].page = q /\ trace.examined[n].idx = i

\* how the crawl has ended
CrawlEnded ==
    /\ pc = "crawled"
    /\ \A m, n \in 1..Len(trace.examined) :
          (trace.examined[m].page = trace.examined[n].page
              /\ trace.examined[m].idx = trace.examined[n].idx) => m = n
    /\ trace.clicks = page_count - 1
    /\ DictKeys(found_reports) = {ExaminedLink(n).href : n \in KeptLinks}
    /\ Len(found_reports) = Cardinality(KeptLinks)
    /\ \/ /\ trace.timed_out
          /\ ~should_stop_scraping
          /\ ExaminedAllUpTo(page_count - 1)
          /\ \A n \in 1..Len(trace.examined) : trace.examined[n].page < page_count
       \/ /\ ~trace.timed_out
          /\ should_stop_scraping
          /\ trace.examined # <<>>
          /\ trace.examined[Len(trace.examined)].page = page_count
          /\ StopTest(ExaminedLink(Len(trace.examined)).text)
       \/ /\ ~trace.timed_out
          /\ ~should_stop_scraping
          /\ page_count = Len(site)
          /\ ExaminedAllUpTo(Len(site))

\* C22: on a site with finitely many result pages whose last page has no
\* next-page control the crawl ends and stays ended, in one of three ways:
\* the next-page control is absent after the last page, a link stopped the
\* crawl early, or the results container was not found on some page; in
\* that last case the result holds every link collected on the earlier
\* pages, all of them examined, and no link of the page that timed out was
\* examined (the page is not tried again).
C22_CrawlEnds == <>[]CrawlEnded

C22_Witness ==
    /\ pc = "crawled"
    /\ trace.timed_out
    /\ page_count = 2
    /\ trace.clicks = 1
    /\ Len(found_reports) = 1
    /\ Len(trace.examined) = 1
    /\ Len(site) > 2

\* ------------------------------ claims on crashes and concurrent log writers
\* the log a command moves its url to, in the files logs
DestinationLog(logs) ==
    IF command.op = "promote" THEN logs.success_log ELSE logs.irrelevant_log

\* a command has crashed between its two writes and no update_failed_log
\* call has written meanwhile
CrashedAlone == command.pc = "crashed" /\ upsert.pc \in {"idle", "read"}

InNeither ==
    /\ command.url \notin FileKeys(failed_log)
    /\ command.url \notin FileKeys(DestinationLog(Logs))

InBoth ==
    /\ command.url \in FileKeys(failed_log)
    /\ command.url \in FileKeys(DestinationLog(Logs))

WritersDone == command.pc \in {"done", "not_found"} /\ upsert.pc = "done"

\* one writer ran from its read to its last write before the other started
SingleWriter == ~command.overlap /\ ~upsert.overlap

\* the url a command popped is back in the failed log
PoppedUrlReappears ==
    /\ command.pc = "done"
    /\ command.url # upsert.url
    /\ command.url \in FileKeys(failed_log)

\* the entry update_failed_log wrote is gone
NewEntryDisappears ==
    /\ WritersDone
    /\ command.url # upsert.url
    /\ upsert.url \notin FileKeys(failed_log)

\* C24: when the command and the update_failed_log call do not interleave,
\* nothing one of them wrote is lost by the other: the new entry of the run
\* is in the failed log with its reason, the url the command moved is out of
\* the failed log and in the destination log with its value, and every
\* other entry of the three logs is as it was.  Only when they interleave
\* can the popped url reappear or the new entry disappear.
C24_SingleWriterSafe ==
    (WritersDone /\ SingleWriter) =>
       /\ ~PoppedUrlReappears
       /\ ~NewEntryDisappears
       /\ command.url # upsert.url =>
             /\ upsert.url \in FileKeys(failed_log)
             /\ failed_log.data[upsert.url] = upsert.reason
       /\ command.pc = "done" =>
             /\ command.url \in FileKeys(DestinationLog(Logs))
             /\ DestinationLog(Logs).data[command.url] = command.filename
             /\ SameExcept(DestinationLog(command.before), DestinationLog(Logs), command.url)
       /\ command.pc = "not_found" =>
             /\ success_log = command.before.success_log
             /\ irrelevant_log = command.before.irrelevant_log
       /\ \A k \in (FileKeys(command.before.failed_log) \cup FileKeys(upsert.before.failed_log)
                       \cup FileKeys(failed_log)) \ {command.url, upsert.url} :
             /\ k \in FileKeys(failed_log)
             /\ k \in FileKeys(command.before.failed_log)
             /\ failed_log.data[k] = command.before.failed_log.data[k]

C24_Witness ==
    /\ WritersDone
    /\ command.overlap
    /\ ~upsert.overlap
    /\ command.op = "promote"
    /\ PoppedUrlReappears
    /\ command.url \in FileKeys(success_log)
    /\ upsert.url \in FileKeys(failed_log)

\* ------------------------------------------- claims on the requested period
\* C25: in a run with a requested period the downloader is called only for
\* interpreted reports whose parsed period is the requested period.
C25_PeriodFilter ==
    (pc = "download" /\ args.period # NoPeriod /\ trace.attempt.url # "") =>
       Strip(trace.attempt.info.period) = <<args.period>>

\* ------------------------------------------ claims on the staging directory
\* C26: when a call of the downloader has returned, with success,
\* partial_success or error, no file that this call downloaded is left in
\* the staging directory.
C26_StagingEmptied ==
    trace.attempt.url # "" =>
       \A f \in staging : f.src # trace.attempt.url

\* --------------------------------- claims on the soundness of the early stop
\* the places of the links of the site, in display order
Places == {<<p, i>> : p \in 1..Len(site), i \in 1..MaxLinks} \cap
             {pl \in (1..Len(site)) \X (1..MaxLinks) : pl[2] <= Len(site[pl[1]])}

Before(a, b) == a[1] < b[1] \/ (a[1] = b[1] /\ a[2] < b[2])

\* the dates a title carries
DatesIn(text) ==
    {i \in 1..(Len(text) - 1) :
        Lower(text[i]) \in LoosePeriodTokens /\ text[i + 1] \in YearTokens}

\* (year, period value) of a title as one number, by the documented ordering
DateValue(text) == (LooseDate(text).year * 4) + OrderingValue(LooseDate(text).period)

\* every title carries one date and the dates never increase down the listing
SortedListing ==
    /\ \A a \in Places : Cardinality(DatesIn(site[a[1]][a[2]].text)) = 1
    /\ \A a, b \in Places :
          Before(a, b) => DateValue(site[a[1]][a[2]].text) >= DateValue(site[b[1]][b[2]].text)

\* the crawl without early stop would add the link to the result
WouldKeep(link) ==
    /\ MatchesSearchTerms(link.text, config.search_terms)
    /\ link.href # ""
    /\ link.href \notin DictKeys(found_reports)
    /\ keep_report(link.text, config.target_year, config.target_period)

\* C27: on a listing sorted most recent first, with a target year, a crawl
\* that stops early returns what the crawl without early stop returns: no
\* link after the stopping link is one the keep rule would add.
C27_EarlyStopSound ==
    (/\ config.enable_early_stopping
     /\ config.target_year # NoYear
     /\ should_stop_scraping
     /\ SortedListing) =>
       \A b \in Places :
          Before(<<page_count, link_idx>>, b) => ~WouldKeep(site[b[1]][b[2]])

\* ------------------------------------------------ claims on late downloads
\* C28: the file a call of the downloader for a url moves into the output
\* tree is the file downloaded from that url, never a file that the click
\* of an earlier call started and that arrived late.
C28_OwnFileSaved ==
    trace.attempt.step = "organized" =>
       /\ trace.attempt.path \in DOMAIN out_tree
       /\ out_tree[trace.attempt.path] = trace.attempt.url
       /\ \A f \in trace.attempt.picked : f.src = trace.attempt.url

\* --------------------------------------- claims on the message of the run
\* the crawled urls that are not in the ignore set
NewUrls == DictKeys(found_reports) \ urls_to_ignore

\* C29: a run that ends with a message of its own returns "Process
\* complete. No new reports to download." exactly when no crawled url is
\* outside the ignore set: also when the crawler found nothing, and not
\* when new urls existed and the title parser returned no usable record.
C29_NothingToDoIff ==
    (RunEnded /\ result.message \in {NoReportsMessage, NothingToDoMessage, SummaryMessage}) =>
       (result.message = NothingToDoMessage <=> NewUrls = {})

\* ------------------------------------------- claims on the place of a file
\* C30: a file saved with success lies at <base>/<year>/<year> <period>/<file>
\* with the year and period of the Parsed Report: inside the output root,
\* three separators below it, with no segment that leads upwards; a year or
\* period with / or .. adds no level and does not leave the root.
C30_SavedUnderRoot ==
    trace.attempt.status = "success" =>
       LET path == trace.attempt.path
           year == Strip(trace.attempt.info.year)
           period == Strip(trace.attempt.info.period)
       IN  /\ path \in DOMAIN out_tree
           /\ IsPrefix(BASE_REPORT_PATH \o <<"/">>, path)
           /\ SeparatorCount(path) = SeparatorCount(BASE_REPORT_PATH) + 3
           /\ <<"..">> \notin Segments(path)
           /\ year \in Segments(path)
           /\ (year \o <<" ">> \o period) \in Segments(path)
           /\ trace.attempt.data \in Segments(path)

====
